---- MODULE Spec2Model ----
(***************************************************************************)
(* tinyvec<T, N>: a vector that keeps its first N elements in an inline   *)
(* array of MaybeUninit<T> (`stack`) and the rest in a Vec<T> (`heap`).   *)
(* Model of src/src/lib.rs with T = bool, as in tests::length.             *)
(*                                                                         *)
(* A container value is a record [stack, heap, counter, iters]; the pure  *)
(* operators below compute what each method does to such a record, and    *)
(* the actions apply one method call to the container held in the         *)
(* variables.  Sequences are 1-based in TLA+, so heap[k] of the source is *)
(* heap[k + 1] here.                                                       *)
(***************************************************************************)
EXTENDS Integers, Sequences, FiniteSets

\* ---------------------------------------------------------------- bounds

\* inline capacity (the const generic N of tinyvec<T, N>)
N == 2
\* the largest length a run reaches; get() and remove() are called with the
\* indices 0 .. MaxLen and next() while the cursor is below MaxLen
MaxLen == 5
\* extend() takes slices of at most MaxExt elements
MaxExt == 2

\* push is called while the spill holds fewer than MaxHeap elements
MaxHeap == MaxLen - N

\* ------------------------------------------------------------ data model

\* pub static general_heap: the capacity the spill Vec is created with
general_heap == 1024

\* the element type T
Values == BOOLEAN
\* T::default()
Default == FALSE
\* MaybeUninit<T>: a slot that holds no value, or the value v
Uninit == <<>>
Init_(v) == <<v>>
Slots == {Uninit} \cup {Init_(v) : v \in Values}

\* enum step_iter
Not == <<"Not">>
Yes(idx) == <<"Yes", idx>>

\* return values: Option<T>, T, (), and a panic that unwinds out of the call
None == <<"None">>
Some(v) == <<"Some", v>>
Val(v) == <<"Val", v>>
Usize(n) == <<"usize", n>>
Pair(p) == <<"pair", p>>
\* a String, as the sequence of its characters
Text(chars) == <<"text", chars>>
Unit == <<"Unit">>
Panic == <<"Panic">>
\* Some(v) with v read from an uninitialized slot
SomeUninit == <<"SomeUninit">>

\* what reading an inline slot can yield: its value, or anything at all when
\* the slot is uninitialized (undefined behaviour)
Read(slot) == IF slot = Uninit THEN Values ELSE {slot[1]}

VARIABLES
  stack,      \* [0 .. N-1 -> Slots], the inline array
  heap,       \* Seq(Values), the spill Vec
  counter,    \* the length counter
  iters,      \* the iteration cursor, Not or Yes(idx)
  heap_cap,   \* the capacity of the spill Vec
  op,         \* the last call, <<name, argument>>
  ret,        \* what the last call returned
  pre,        \* the container as it was when the last call began
  ref,        \* the values pushed, while only push has been called
  net,        \* elements pushed minus pops and removes that took one out
  only_push,  \* no pop or remove has been called yet
  modified,   \* the container was modified after iteration began
  produced,   \* the items next() has yielded so far
  exhausted   \* next() has returned None and nothing was pushed since

vars == <<stack, heap, counter, iters, heap_cap, op, ret, pre, ref, net, only_push,
          modified, produced, exhausted>>

\* the container held in the variables
Self ==
  [stack |-> stack, heap |-> heap, counter |-> counter, iters |-> iters,
   cap |-> heap_cap]

\* -------------------------------------------------------------- methods

\* new that creates the spill with Vec::new()
new_no_reserve ==
  [stack |-> [i \in 0 .. N - 1 |-> Uninit], heap |-> <<>>, counter |-> 0,
   iters |-> Not, cap |-> 0]

\* tinyvec::new
new ==
  [stack |-> [i \in 0 .. N - 1 |-> Uninit], heap |-> <<>>, counter |-> 0,
   iters |-> Not, cap |-> general_heap]

\* tinyvec::capacity
capacity(t) == <<N, t.cap>>

\* the capacity of a Vec of capacity c that is to hold required elements:
\* a full Vec grows to at least twice its capacity
Reserve(c, required) ==
  IF required <= c THEN c
  ELSE IF 2 * c >= required THEN 2 * c ELSE required

\* tinyvec::len
len(t) == t.counter

\* push with the boundary test written `counter > N`: the N+1-th element goes
\* to no inline slot and the spill starts one element late
push_gt(t, element) ==
  IF t.counter > N
    THEN [t EXCEPT !.heap = Append(@, element), !.counter = @ + 1]
    ELSE [t EXCEPT !.stack = [i \in 0 .. N - 1 |->
                                IF i = t.counter THEN Init_(element) ELSE @[i]],
                   !.counter = @ + 1]

\* tinyvec::push
push(t, element) ==
  IF t.counter >= N
    THEN [t EXCEPT !.heap = Append(@, element),
                   !.cap = Reserve(@, Len(t.heap) + 1), !.counter = @ + 1]
    ELSE [t EXCEPT !.stack[t.counter] = Init_(element), !.counter = @ + 1]

\* get with the bounds check written `at > counter`
get_inclusive(t, at) ==
  IF at > t.counter THEN None
  ELSE IF at < N THEN (IF t.stack[at] = Uninit THEN SomeUninit
                       ELSE Some(t.stack[at][1]))
  ELSE IF at - N >= Len(t.heap) THEN Panic
  ELSE Some(t.heap[at - N + 1])

\* tinyvec::get
get(t, at) ==
  IF at >= t.counter THEN None
  ELSE IF at < N THEN (IF t.stack[at] = Uninit THEN SomeUninit
                       ELSE Some(t.stack[at][1]))
  ELSE IF at - N >= Len(t.heap) THEN Panic
  ELSE Some(t.heap[at - N + 1])

\* Vec::remove(k): order-preserving removal of the element at offset k
VecRemove(v, k) == [j \in 1 .. Len(v) - 1 |-> IF j <= k THEN v[j] ELSE v[j + 1]]

\* what a slot can hold after MaybeUninit::new(slot.as_ptr().read()): the
\* value read, or anything, defined or not, when slot is uninitialized
Copied(slot) == IF slot = Uninit THEN Slots ELSE {slot}

\* the shift loop of remove running over index + 1 .. N - 1
Shifted_late(s, index) ==
  {s2 \in [0 .. N - 1 -> Slots] :
     \A i \in 0 .. N - 1 :
       IF index + 1 <= i /\ i < N - 1 THEN s2[i] \in Copied(s[i + 1])
                                      ELSE s2[i] = s[i]}

\* the inline arrays the shift loop of remove can leave behind
Shifted(s, index) ==
  {s2 \in [0 .. N - 1 -> Slots] :
     \A i \in 0 .. N - 1 :
       IF index <= i /\ i < N - 1 THEN s2[i] \in Copied(s[i + 1])
                                  ELSE s2[i] = s[i]}

\* remove with the bounds check written `index > counter`
remove_inclusive(t, index) ==
  IF index > t.counter THEN {[t |-> t, ret |-> None]}
  ELSE IF index < N THEN
    {[t |-> [t EXCEPT !.stack = s2, !.counter = @ - 1], ret |-> Some(value)] :
       value \in Read(t.stack[index]), s2 \in Shifted(t.stack, index)}
  ELSE IF index >= Len(t.heap) THEN {[t |-> t, ret |-> Panic]}
  ELSE {[t |-> [t EXCEPT !.heap = VecRemove(@, index - N), !.counter = @ - 1],
         ret |-> Some(t.heap[index + 1])]}

\* tinyvec::remove: the set of outcomes [t, ret] of the call
remove(t, index) ==
  IF index >= t.counter THEN {[t |-> t, ret |-> None]}
  ELSE IF index < N THEN
    {[t |-> [t EXCEPT !.stack = s2, !.counter = @ - 1], ret |-> Some(value)] :
       value \in Read(t.stack[index]), s2 \in Shifted(t.stack, index)}
  ELSE IF index >= Len(t.heap) THEN {[t |-> t, ret |-> Panic]}
  ELSE {[t |-> [t EXCEPT !.heap = VecRemove(@, index - N), !.counter = @ - 1],
         ret |-> Some(t.heap[index + 1])]}

\* pop without the `len() == 0` early return (the counter wraps below zero)
pop_unchecked(t) ==
  IF t.heap = <<>> THEN
    {[t |-> [t EXCEPT !.stack[N - 1] = Uninit, !.counter = @ - 1],
      ret |-> Val(value)] : value \in Read(t.stack[N - 1])}
  ELSE {[t |-> [t EXCEPT !.heap = SubSeq(@, 1, Len(@) - 1), !.counter = @ - 1],
         ret |-> Val(t.heap[Len(t.heap)])]}

\* pop whose spill branch forgets `counter -= 1`
pop_keeps_counter(t) ==
  IF len(t) = 0 THEN {[t |-> t, ret |-> Val(Default)]}
  ELSE IF t.heap = <<>> THEN
    {[t |-> [t EXCEPT !.stack[N - 1] = Uninit, !.counter = @ - 1],
      ret |-> Val(value)] : value \in Read(t.stack[N - 1])}
  ELSE {[t |-> [t EXCEPT !.heap = SubSeq(@, 1, Len(@) - 1)],
         ret |-> Val(t.heap[Len(t.heap)])]}

\* pop that marks slot 0 uninitialized instead of slot N - 1
pop_clears_first(t) ==
  IF len(t) = 0 THEN {[t |-> t, ret |-> Val(Default)]}
  ELSE IF t.heap = <<>> THEN
    {[t |-> [t EXCEPT !.stack[0] = Uninit, !.counter = @ - 1],
      ret |-> Val(value)] : value \in Read(t.stack[N - 1])}
  ELSE {[t |-> [t EXCEPT !.heap = SubSeq(@, 1, Len(@) - 1), !.counter = @ - 1],
         ret |-> Val(t.heap[Len(t.heap)])]}

\* tinyvec::pop: the set of outcomes [t, ret] of the call
pop(t) ==
  IF len(t) = 0 THEN {[t |-> t, ret |-> Val(Default)]}
  ELSE IF t.heap = <<>> THEN
    {[t |-> [t EXCEPT !.stack[N - 1] = Uninit, !.counter = @ - 1],
      ret |-> Val(value)] : value \in Read(t.stack[N - 1])}
  ELSE {[t |-> [t EXCEPT !.heap = SubSeq(@, 1, Len(@) - 1), !.counter = @ - 1],
         ret |-> Val(t.heap[Len(t.heap)])]}

\* extend that walks the slice from its end
RECURSIVE extend_reversed(_, _)
extend_reversed(t, elements) ==
  IF elements = <<>> THEN t
  ELSE extend_reversed(push(t, elements[Len(elements)]),
                       SubSeq(elements, 1, Len(elements) - 1))

\* tinyvec::extend
RECURSIVE extend(_, _)
extend(t, elements) ==
  IF elements = <<>> THEN t
  ELSE extend(push(t, Head(elements)), Tail(elements))

\* next whose first call starts the cursor at 1
next_from_one(t) ==
  LET t2 == [t EXCEPT !.iters = IF @ = Not THEN Yes(1) ELSE Yes(@[2] + 1)]
      at == t2.iters[2]
  IN  [t |-> t2, ret |-> IF at <= t2.counter THEN get(t2, at) ELSE None]

\* next that starts over once the cursor has passed the end
next_wraps(t) ==
  LET t2 == [t EXCEPT !.iters = IF @ = Not THEN Yes(0) ELSE Yes(@[2] + 1)]
      at == t2.iters[2]
  IN  IF at <= t2.counter THEN [t |-> t2, ret |-> get(t2, at)]
      ELSE [t |-> [t2 EXCEPT !.iters = Not], ret |-> None]

\* Iterator::next: the outcome [t, ret] of the call
next(t) ==
  LET t2 == [t EXCEPT !.iters = IF @ = Not THEN Yes(0) ELSE Yes(@[2] + 1)]
      at == t2.iters[2]
  IN  [t |-> t2, ret |-> IF at <= t2.counter THEN get(t2, at) ELSE None]

\* <bool as Display>::fmt, the text of format!("{}", v)
Show(v) == IF v THEN <<"t", "r", "u", "e">> ELSE <<"f", "a", "l", "s", "e">>

\* get(i).unwrap_or(T::default()): the values it can yield
Unwrapped(r) ==
  CASE r[1] = "Some" -> {r[2]}
    [] r = SomeUninit -> Values
    [] OTHER -> {Default}

\* the loop of fmt that never takes the `i == counter - 1` branch
RECURSIVE fmt_loop_comma(_, _, _)
fmt_loop_comma(t, i, res) ==
  IF i >= t.counter THEN {res}
  ELSE UNION {fmt_loop_comma(t, i + 1, res \o Show(v) \o <<",", " ">>) :
                v \in Unwrapped(get(t, i))}

\* Display::fmt, the loop from index i on with res built so far: the
\* strings it can leave in res
RECURSIVE fmt_loop(_, _, _)
fmt_loop(t, i, res) ==
  IF i >= t.counter THEN {res}
  ELSE UNION {IF i = t.counter - 1 THEN {res \o Show(v) \o <<" ">>}
              ELSE fmt_loop(t, i + 1, res \o Show(v) \o <<",", " ">>) :
                v \in Unwrapped(get(t, i))}

\* the indices Display::fmt passes to get
fmt_reads(t) == 0 .. t.counter - 1

\* Display::fmt: the outcomes of the call
fmt(t) ==
  IF \E i \in fmt_reads(t) : get(t, i) = Panic THEN {Panic}
  ELSE {Text(res \o <<"]">>) : res \in fmt_loop(t, 0, <<"[", " ">>)}

\* the inline slots get(at) reads on t
get_reads(t, at) == IF at < t.counter /\ at < N THEN {at} ELSE {}

\* the inline slots the call o reads on t: stack[..].as_ptr() dereferenced
stack_reads(t, o) ==
  CASE o[1] = "get" -> get_reads(t, o[2])
    [] o[1] = "remove" ->
         IF o[2] < t.counter /\ o[2] < N THEN o[2] .. N - 1 ELSE {}
    [] o[1] = "pop" ->
         IF len(t) # 0 /\ t.heap = <<>> THEN {N - 1} ELSE {}
    [] o[1] = "next" ->
         IF next(t).t.iters[2] <= t.counter
           THEN get_reads(t, next(t).t.iters[2]) ELSE {}
    [] o[1] = "fmt" -> UNION {get_reads(t, i) : i \in fmt_reads(t)}
    [] OTHER -> {}

\* ----------------------------------------------------- reference list

RefPop(l) == IF l = <<>> THEN l ELSE SubSeq(l, 1, Len(l) - 1)
RefRemove(l, i) == IF i < Len(l) THEN VecRemove(l, i) ELSE l

\* the reference list after the call o
RefApply(l, o) ==
  CASE o[1] = "push"   -> Append(l, o[2])
    [] o[1] = "extend" -> l \o o[2]
    [] o[1] = "pop"    -> RefPop(l)
    [] o[1] = "remove" -> RefRemove(l, o[2])
    [] OTHER           -> l

\* number of elements the call o pushes
Pushed(o) ==
  CASE o[1] = "push" -> 1 [] o[1] = "extend" -> Len(o[2]) [] OTHER -> 0

\* the call o, made on t and returning r, took an element out
TookOut(t, o, r) ==
  \/ o[1] = "pop" /\ len(t) > 0 /\ r # Panic
  \/ o[1] = "remove" /\ r[1] = "Some"

\* what the caller receives: a value read from an uninitialized slot is arbitrary
Returned(r) == IF r = SomeUninit THEN {Some(v) : v \in Values} ELSE {r}

Content(t) == <<t.stack, t.heap, t.counter>>

\* ---------------------------------------------------------------- steps

Init ==
  /\ stack = new.stack
  /\ heap = new.heap
  /\ counter = new.counter
  /\ iters = new.iters
  /\ heap_cap = new.cap
  /\ op = <<"new">>
  /\ ret = Unit
  /\ pre = new
  /\ ref = <<>>
  /\ net = 0
  /\ only_push = TRUE
  /\ modified = FALSE
  /\ produced = <<>>
  /\ exhausted = FALSE

\* the call o turns the container into t and returns r
Step(o, t, r) ==
  /\ ret # Panic
  /\ stack' = t.stack
  /\ heap' = t.heap
  /\ counter' = t.counter
  /\ iters' = t.iters
  /\ heap_cap' = t.cap
  /\ op' = o
  /\ ret' = r
  /\ pre' = Self
  /\ net' = net + Pushed(o) - (IF TookOut(Self, o, r) THEN 1 ELSE 0)
  /\ only_push' = (only_push /\ o[1] \notin {"pop", "remove"})
  /\ ref' = IF only_push' THEN RefApply(ref, o) ELSE <<>>
  /\ modified' = (modified \/ (iters # Not /\ Content(t) # Content(Self)))
  /\ produced' = IF modified' THEN <<>>
                 ELSE IF o[1] = "next" /\ r[1] = "Some" THEN Append(produced, r[2])
                 ELSE produced
  /\ exhausted' = ((exhausted /\ Pushed(o) = 0) \/ (o[1] = "next" /\ r = None))

Len_ ==
  Step(<<"len">>, Self, Usize(len(Self)))

Capacity ==
  Step(<<"capacity">>, Self, Pair(capacity(Self)))

Display ==
  \E r \in fmt(Self) :
    Step(<<"fmt">>, Self, r)

Push ==
  \E element \in Values :
    /\ Len(heap) < MaxHeap
    /\ Step(<<"push", element>>, push(Self, element), Unit)

Get ==
  \E at \in 0 .. MaxLen :
    \E r \in Returned(get(Self, at)) :
      Step(<<"get", at>>, Self, r)

Remove ==
  \E index \in 0 .. MaxLen :
    \E out \in remove(Self, index) :
      Step(<<"remove", index>>, out.t, out.ret)

Pop ==
  \E out \in pop(Self) :
    Step(<<"pop">>, out.t, out.ret)

Slices == UNION {[1 .. n -> Values] : n \in 0 .. MaxExt}

Extend ==
  \E elements \in Slices :
    /\ Len(extend(Self, elements).heap) <= MaxHeap
    /\ Step(<<"extend", elements>>, extend(Self, elements), Unit)

NextItem ==
  /\ IF iters = Not THEN TRUE ELSE iters[2] < MaxLen
  /\ \E r \in Returned(next(Self).ret) :
       Step(<<"next">>, next(Self).t, r)

Next ==
  \/ Len_
  \/ Capacity
  \/ Display
  \/ Push
  \/ Get
  \/ Remove
  \/ Pop
  \/ Extend
  \/ NextItem

Spec == Init /\ [][Next]_vars

\* ---------------------------------------------------------------- claims

Min(a, b) == IF a < b THEN a ELSE b

\* the last call ran to completion (it did not unwind with a panic)
Completed == ret # Panic

\* the container t is observationally equal to the list l
Observed(t, l) ==
  /\ len(t) = Len(l)
  /\ \A i \in 0 .. Len(l) - 1 : get(t, i) = Some(l[i + 1])

\* every get(i), i < len(), returns Some value
IsList(t) == \A i \in 0 .. len(t) - 1 : get(t, i)[1] = "Some"

\* the list of the elements of t, as get returns them
Elems(t) == [i \in 1 .. len(t) |-> get(t, i - 1)[2]]

\* C1: after any sequence of push, extend, pop and remove calls the container
\* equals the reference list that received the same calls: len() is the
\* list's length and get(i) is Some of its i-th element for every i < len().
\* Stated call by call: the elements after a call, Elems(Self), are what the
\* reference list operation makes of the elements before it, Elems(pre).
\* (the claim, which the code violates)
C1_RefinesList ==
  (Completed /\ IsList(pre)) => Observed(Self, RefApply(Elems(pre), op))

\* C2: get(index) is None exactly when index >= len(); below len() it is
\* Some of inline slot index when index < N and of spill offset index - N
\* otherwise; a get call leaves the container as it was.
C2_GetBounds ==
  /\ \A index \in 0 .. MaxLen + 1 :
       /\ (get(Self, index) = None) <=> (index >= len(Self))
       /\ (index < len(Self) /\ index < N) =>
            /\ stack[index] # Uninit
            /\ get(Self, index) = Some(stack[index][1])
       /\ (index < len(Self) /\ index >= N) =>
            /\ index - N < Len(heap)
            /\ get(Self, index) = Some(heap[index - N + 1])
  /\ op[1] = "get" => (Self = pre /\ ret = get(pre, op[2]))

\* C2 witness: a get of a spill index returned Some, and one past the end None
C2_Witness ==
  /\ op[1] = "get" /\ op[2] >= N /\ ret[1] = "Some"
  /\ get(Self, len(Self)) = None

C5_PopReturnsLast ==
  (op[1] = "pop" /\ len(pre) > 0) =>
    /\ Some(ret[2]) = get(pre, len(pre) - 1)
    /\ len(Self) = len(pre) - 1
    /\ \A i \in 0 .. len(pre) - 2 : get(Self, i) = get(pre, i)

\* C6: pop() on an empty container returns T::default(), does not panic and
\* leaves inline slots, spill, len() and cursor as they were.
C6_PopEmpty ==
  (op[1] = "pop" /\ len(pre) = 0) => (ret = Val(Default) /\ Self = pre)

\* C6 witness: pop on a container that was filled and emptied again
C6_Witness ==
  /\ op[1] = "pop" /\ len(pre) = 0 /\ ret = Val(Default)
  /\ pre.stack[0] # Uninit

\* C7: remove(index) with index >= len() returns None and changes nothing.
C7_RemoveOutOfRange ==
  (op[1] = "remove" /\ op[2] >= len(pre)) => (ret = None /\ Self = pre)

\* C7 witness: an out-of-range remove on a spilled container under iteration
C7_Witness ==
  /\ op[1] = "remove" /\ op[2] >= len(pre) /\ ret = None
  /\ len(pre) > N /\ iters # Not

\* C8: with len() > N, remove(index) for index < N returns the element at
\* index and leaves every remaining index with its logically shifted value.
\* (the claim, which the code violates)
C8_RemoveInlineSpilled ==
  (op[1] = "remove" /\ len(pre) > N /\ op[2] < N) =>
    /\ ret = get(pre, op[2])
    /\ \A i \in 0 .. len(pre) - 2 :
         get(Self, i) = IF i < op[2] THEN get(pre, i) ELSE get(pre, i + 1)

\* C9: remove(index) with N <= index < len() returns Some of the element at
\* spill offset index - N, removes exactly that element from the spill,
\* leaves the inline slots alone and decrements len().
\* (the claim, which the code violates)
C9_RemoveSpill ==
  (op[1] = "remove" /\ N <= op[2] /\ op[2] < len(pre)) =>
    /\ ret = get(pre, op[2])
    /\ ret[1] = "Some"
    /\ heap = VecRemove(pre.heap, op[2] - N)
    /\ stack = pre.stack
    /\ len(Self) = len(pre) - 1

\* C10: on a container not modified under iteration, the next() calls so
\* far have yielded get(0), get(1), ... in order, the call that moves the
\* cursor to len() or beyond returns None, and on a container that was
\* only pushed to the items are the pushed values in order.
C10_IterationOrder ==
  (~modified /\ iters # Not) =>
    /\ Len(produced) = Min(iters[2] + 1, len(Self))
    /\ \A i \in 0 .. Len(produced) - 1 : Some(produced[i + 1]) = get(Self, i)
    /\ op[1] = "next" =>
         ret = IF iters[2] < len(Self) THEN get(Self, iters[2]) ELSE None
    /\ (only_push /\ iters[2] >= len(Self)) => produced = ref

\* C10 witness: a full iteration over inline and spill elements has just ended
C10_Witness ==
  /\ ~modified /\ op[1] = "next" /\ ret = None
  /\ iters = Yes(len(Self)) /\ len(Self) > N
  /\ Len(produced) = len(Self)

\* the position of the cursor of t, -1 before iteration starts
Cursor(t) == IF t.iters = Not THEN 0 - 1 ELSE t.iters[2]

\* C11: once next() has returned None, every later next() returns None as
\* long as nothing is pushed; no call resets the cursor or moves it back.
C11_NonRestartable ==
  /\ (exhausted /\ op[1] = "next") => ret = None
  /\ Cursor(pre) <= Cursor(Self)
  /\ op[1] # "next" => iters = pre.iters

\* C11 witness: a second iteration of a non-empty container, after the first
\* one ended and an element was removed, yields nothing
C11_Witness ==
  /\ exhausted /\ op[1] = "next" /\ ret = None
  /\ len(Self) > 0 /\ Cursor(Self) > len(Self) + 1

\* the container after push(s[1]); ...; push(s[k]) on t
RECURSIVE PushEach(_, _, _)
PushEach(t, s, k) == IF k = 0 THEN t ELSE push(PushEach(t, s, k - 1), s[k])

\* C12: extend(elements) leaves the container in the state that push of each
\* element in order leaves it in, and len() grows by the length of the slice.
C12_ExtendIsPushes ==
  op[1] = "extend" =>
    /\ Self = PushEach(pre, op[2], Len(op[2]))
    /\ len(Self) = len(pre) + Len(op[2])
    /\ ret = Unit

\* C12 witness: an extend by two different values that fills the last inline
\* slot and starts the spill
C12_Witness ==
  /\ op[1] = "extend" /\ Len(op[2]) = 2 /\ op[2][1] # op[2][2]
  /\ len(pre) = N - 1 /\ pre.heap = <<>> /\ Len(heap) = 1

\* C13: capacity() is (N, c) with N fixed whatever len() is; c is
\* general_heap (within the bounds the spill never holds more than
\* general_heap elements), c is at least the spill length and no pop or
\* remove makes it smaller.
C13_Capacity ==
  /\ capacity(Self)[1] = N
  /\ capacity(Self)[2] = general_heap
  /\ capacity(Self)[2] >= Len(heap)
  /\ op[1] \in {"pop", "remove"} => capacity(Self)[2] >= capacity(pre)[2]
  /\ op[1] = "capacity" => (ret = Pair(<<N, general_heap>>) /\ Self = pre)

\* C13 witness: capacity() called on a spilled container after an element
\* was taken out
C13_Witness ==
  /\ op[1] = "capacity" /\ ret = Pair(<<N, general_heap>>)
  /\ Len(heap) > 0 /\ ~only_push

\* the elements of the list l, each followed by ", " and the last by " "
RECURSIVE Listed(_)
Listed(l) ==
  IF l = <<>> THEN <<>>
  ELSE IF Len(l) = 1 THEN Show(l[1]) \o <<" ">>
  ELSE Show(l[1]) \o <<",", " ">> \o Listed(Tail(l))

\* "[ e0, e1, ..., en ]", and "[ ]" for the empty list
Rendering(l) == <<"[", " ">> \o Listed(l) \o <<"]">>

\* C14: the rendering is "[ e0, e1, ..., en ]" over get(0) .. get(len() - 1)
\* in order, "[ ]" when len() is 0; it reads no index >= len() and leaves
\* the container as it was.
C14_Display ==
  /\ IsList(Self)
  /\ fmt(Self) = {Text(Rendering(Elems(Self)))}
  /\ len(Self) = 0 => fmt(Self) = {Text(<<"[", " ", "]">>)}
  /\ \A i \in fmt_reads(Self) : i < len(Self)
  /\ op[1] = "fmt" => (Self = pre /\ ret = Text(Rendering(Elems(pre))))

\* C14 witness: a spilled container holding both values was rendered
C14_Witness ==
  /\ op[1] = "fmt" /\ ret[1] = "text" /\ len(Self) > N
  /\ \E i, j \in 0 .. len(Self) - 1 : get(Self, i) = Some(TRUE) /\ get(Self, j) = Some(FALSE)

\* C15: invariant I2: the spill length is len() - N whenever len() > N and
\* the spill is empty whenever len() <= N.
\* (the claim, which the code violates)
C15_I2 ==
  /\ len(Self) > N => Len(heap) = len(Self) - N
  /\ len(Self) <= N => heap = <<>>

\* C16: no call reads an uninitialized inline slot: every inline slot a call
\* reads has an index below min(len(), N) when the call begins.
\* (the claim, which the code violates)
C16_NoUninitRead ==
  \A i \in stack_reads(pre, op) :
    /\ i < Min(len(pre), N)
    /\ pre.stack[i] # Uninit

\* C17: invariant I1: every inline slot below min(len(), N) has been
\* written, so get(i) on it returns a value and never uninitialized memory.
C17_I1 ==
  \A i \in 0 .. Min(len(Self), N) - 1 :
    /\ stack[i] \in {Init_(v) : v \in Values}
    /\ get(Self, i) \in {Some(v) : v \in Values}

\* C17 witness: a remove below inline capacity copied an uninitialized slot,
\* and the slots below len() hold values all the same
C17_Witness ==
  /\ op[1] = "remove" /\ ret[1] = "Some" /\ len(pre) = N - 1
  /\ len(Self) < N - 1 \/ stack[len(Self)] = Uninit
  /\ \E i \in 0 .. N - 1 : pre.stack[i] = Uninit

\* C18: with len() <= N and the spill empty, remove(index) for index < len()
\* returns what get(index) returned, len() drops by one, get(i) is unchanged
\* below index and is the former get(i + 1) from index on, and the spill
\* stays empty.
C18_RemoveInline ==
  (op[1] = "remove" /\ len(pre) <= N /\ pre.heap = <<>> /\ op[2] < len(pre)) =>
    /\ ret = get(pre, op[2])
    /\ ret[1] = "Some"
    /\ len(Self) = len(pre) - 1
    /\ \A i \in 0 .. len(Self) - 1 :
         get(Self, i) = IF i < op[2] THEN get(pre, i) ELSE get(pre, i + 1)
    /\ heap = <<>>

\* C18 witness: the first of N elements was removed and a different one
\* moved down into its place
C18_Witness ==
  /\ op[1] = "remove" /\ op[2] = 0 /\ len(pre) = N /\ pre.heap = <<>>
  /\ get(pre, 0) # get(pre, 1) /\ get(Self, 0) = get(pre, 1)

\* C19: the spill holds at least len() - N elements and pop takes its inline
\* branch only when len() <= N; so get, next and the rendering never index
\* the spill out of range and never panic.
C19_SpillInRange ==
  /\ Len(heap) >= len(Self) - N
  /\ (op[1] = "pop" /\ len(pre) # 0 /\ pre.heap = <<>>) => len(pre) <= N
  /\ \A index \in 0 .. MaxLen + 1 : get(Self, index) # Panic
  /\ next(Self).ret # Panic
  /\ Panic \notin fmt(Self)
  /\ op[1] \in {"get", "next", "fmt"} => ret # Panic

\* C19 witness: get read the last element of a spill that holds more than
\* len() - N elements
C19_Witness ==
  /\ op[1] = "get" /\ op[2] = len(Self) - 1 /\ op[2] >= N /\ ret[1] = "Some"
  /\ Len(heap) > len(Self) - N

\* C20: in every reachable state push(x) makes x the last element: len()
\* grows by one, get(len() - 1) is Some(x) and get(i) is unchanged for every
\* i below the former len().
\* (the claim, which the code violates)
C20_PushIsLast ==
  op[1] = "push" =>
    /\ len(Self) = len(pre) + 1
    /\ get(Self, len(Self) - 1) = Some(op[2])
    /\ \A i \in 0 .. len(pre) - 1 : get(Self, i) = get(pre, i)

====
